---------------------------- MODULE Spec2Model ----------------------------
(***************************************************************************)
(* Content publishing pipeline of the 0xghost blog: the Atom feed          *)
(* (announcements.atom GET), the llms.txt index (GET), the OG image        *)
(* manifest, and the escapeXml helper.                                     *)
(*                                                                         *)
(* Strings are JavaScript strings: sequences of UTF-16 code units, written *)
(* here as tuples of numbers.  A Date is its time value split into         *)
(* [day, ms] (days since 1970-01-01 and milliseconds within the day, so    *)
(* valueOf() = day * 86400000 + ms); the split keeps every number within   *)
(* TLC's 32-bit integers.                                                  *)
(***************************************************************************)
EXTENDS Integers, Sequences, FiniteSets, TLC

VARIABLES
    store,          \* entries of the 'blog' collection, in loader order
    now,            \* the wall clock read by new Date()
    feedPc,         \* position of the feed GET: "idle" or "fetched"
    feedPosts,      \* the feed GET's posts array
    feedResponse,   \* body of the feed GET's last Response
    indexPc,        \* position of the index GET: "idle" or "fetched"
    indexPosts,     \* the index GET's posts array
    indexResponse,  \* body of the index GET's last Response
    unsafe,         \* argument of the escapeXml call under test
    escaped,        \* its return value
    escPc,          \* "call" before escapeXml has run, "done" after
    ogPc,           \* the OG route module: "unloaded", "fetched" or "loaded"
    ogEntries,      \* its module-level const entries
    ogPages,        \* its module-level const pages
    ogResponse,     \* the render requests the OG route last served
    contentChanged, \* whether the content of the store has been changed
    entryPost,      \* the record of the feed entry under test
    entryOut,       \* the feed entry rendered from it
    entryPc         \* "call" before the entry is rendered, "done" after

vars == <<store, now, feedPc, feedPosts, feedResponse,
          indexPc, indexPosts, indexResponse, unsafe, escaped, escPc,
          ogPc, ogEntries, ogPages, ogResponse, contentChanged,
          entryPost, entryOut, entryPc>>

ogVars == <<ogPc, ogEntries, ogPages, ogResponse>>

entryVars == <<entryPost, entryOut, entryPc>>

escapeVars == <<unsafe, escaped, escPc>>

pipelineVars == <<store, now, feedPc, feedPosts, feedResponse,
                  indexPc, indexPosts, indexResponse>>

-----------------------------------------------------------------------------
(* Bounds of the model *)

MaxPosts == 3

MaxLen == 3

-----------------------------------------------------------------------------
(* JavaScript values *)

\* undefined: the value of a missing property; no string holds a negative
\* code unit, so it differs from every string.
Undefined == <<-1>>

\* the value null
Null == <<-2>>

\* the value of feedResponse and indexResponse before any Response
NoResponse == [none |-> TRUE]

\* String(undefined), as a template literal interpolates it
undefinedText == <<117, 110, 100, 101, 102, 105, 110, 101, 100>>

\* obj.key: the property's value, or undefined when obj has no such property
Prop(obj, key) == IF key \in DOMAIN obj THEN obj[key] ELSE Undefined

\* `${v}` for a string or undefined
Interpolate(v) ==
    IF v = Undefined THEN undefinedText
    ELSE IF v = Null THEN <<110, 117, 108, 108>>
    ELSE v

\* v ?? fallback, for v = obj.key (null never occurs in the collection)
Nullish(obj, key) == key \notin DOMAIN obj

RECURSIVE Flatten(_)
\* strs.join(''): the concatenation of a sequence of strings
Flatten(strs) ==
    IF strs = <<>> THEN <<>> ELSE Head(strs) \o Flatten(Tail(strs))

RECURSIVE Join(_, _)
\* arr.join(sep)
Join(arr, sep) ==
    IF arr = <<>> THEN <<>>
    ELSE IF Len(arr) = 1 THEN arr[1]
    ELSE arr[1] \o sep \o Join(Tail(arr), sep)

RECURSIVE ToDecimal(_)
\* String(n) for an integer n >= 0: its decimal digits
ToDecimal(n) ==
    IF n < 10 THEN <<48 + n>> ELSE ToDecimal(n \div 10) \o <<48 + (n % 10)>>

RECURSIVE Pad(_, _)
\* the decimal digits of n, zero-padded on the left to width w
Pad(n, w) ==
    IF w = 0 THEN <<>> ELSE Pad(n \div 10, w - 1) \o <<48 + (n % 10)>>

-----------------------------------------------------------------------------
(* escapeXml *)

\* Replacer without its case for the apostrophe
ReplacerNoApos(c) ==
    CASE c = 60 -> <<38, 108, 116, 59>>
      [] c = 62 -> <<38, 103, 116, 59>>
      [] c = 38 -> <<38, 97, 109, 112, 59>>
      [] c = 34 -> <<38, 113, 117, 111, 116, 59>>
      [] OTHER  -> <<38, 35>> \o ToDecimal(c) \o <<59>>

\* Replacer giving the apostrophe the entity of the quotation mark
ReplacerQuotAlike(c) ==
    CASE c = 60 -> <<38, 108, 116, 59>>
      [] c = 62 -> <<38, 103, 116, 59>>
      [] c = 38 -> <<38, 97, 109, 112, 59>>
      [] c = 39 -> <<38, 113, 117, 111, 116, 59>>
      [] c = 34 -> <<38, 113, 117, 111, 116, 59>>
      [] OTHER  -> <<38, 35>> \o ToDecimal(c) \o <<59>>

\* the replacer callback of escapeXml: the switch on the matched code unit
Replacer(c) ==
    CASE c = 60 -> <<38, 108, 116, 59>>              \* '<'  -> &lt;
      [] c = 62 -> <<38, 103, 116, 59>>              \* '>'  -> &gt;
      [] c = 38 -> <<38, 97, 109, 112, 59>>          \* '&'  -> &amp;
      [] c = 39 -> <<38, 97, 112, 111, 115, 59>>     \* '\'' -> &apos;
      [] c = 34 -> <<38, 113, 117, 111, 116, 59>>    \* '"'  -> &quot;
      [] OTHER  -> <<38, 35>> \o ToDecimal(c) \o <<59>>  \* &#${c.charCodeAt(0)};

\* Matches with the ampersand left out of the character class
MatchesNoAmp(c) == c \in {60, 62, 39, 34} \/ (c >= 128 /\ c <= 65535)

\* /[<>&'"]|[\u0080-\uFFFF]/ on one code unit (the regex has no u flag, so
\* it matches code units: a surrogate half matches the second alternative)
Matches(c) == c \in {60, 62, 38, 39, 34} \/ (c >= 128 /\ c <= 65535)

\* replace without the g flag: the first matching code unit only
ReplaceAllFirst(s) ==
    Flatten([i \in 1..Len(s) |->
                IF Matches(s[i]) /\ \A j \in 1..(i - 1) : ~Matches(s[j])
                THEN Replacer(s[i]) ELSE <<s[i]>>])

\* unsafe.replace(regex, replacer) with the g flag: every matching code unit
\* is replaced, the others are copied
ReplaceAll(s) ==
    Flatten([i \in 1..Len(s) |-> IF Matches(s[i]) THEN Replacer(s[i]) ELSE <<s[i]>>])

\* escapeXml without its first line
escapeXmlNoGuard(s) == ReplaceAll(s)

\* if (!unsafe) return '': undefined, null and '' are falsy
escapeXml(s) ==
    IF s = Undefined \/ s = Null \/ s = <<>> THEN <<>> ELSE ReplaceAll(s)

-----------------------------------------------------------------------------
(* Dates *)

\* the sign of b.valueOf() - a.valueOf() for two Dates
ValueOfDiffSign(b, a) ==
    IF b.day # a.day THEN (IF b.day > a.day THEN 1 ELSE -1)
    ELSE IF b.ms # a.ms THEN (IF b.ms > a.ms THEN 1 ELSE -1)
    ELSE 0

\* the UTC calendar date [y, m, d] of a day number (days since 1970-01-01),
\* for day >= 0
CivilFromDays(day) ==
    LET z   == day + 719468
        era == z \div 146097
        doe == z - era * 146097
        yoe == (doe - doe \div 1460 + doe \div 36524 - doe \div 146096) \div 365
        doy == doe - (365 * yoe + yoe \div 4 - yoe \div 100)
        mp  == (5 * doy + 2) \div 153
        d   == doy - (153 * mp + 2) \div 5 + 1
        m   == IF mp < 10 THEN mp + 3 ELSE mp - 9
        y   == yoe + era * 400 + (IF m <= 2 THEN 1 ELSE 0)
    IN  [y |-> y, m |-> m, d |-> d]

\* date.toISOString(): YYYY-MM-DDTHH:mm:ss.sssZ (years 1970 to 9999)
toISOString(date) ==
    LET c == CivilFromDays(date.day)
    IN  Pad(c.y, 4) \o <<45>> \o Pad(c.m, 2) \o <<45>> \o Pad(c.d, 2)
        \o <<84>> \o Pad(date.ms \div 3600000, 2)
        \o <<58>> \o Pad((date.ms \div 60000) % 60, 2)
        \o <<58>> \o Pad((date.ms \div 1000) % 60, 2)
        \o <<46>> \o Pad(date.ms % 1000, 3) \o <<90>>

RECURSIVE UpToFirst(_, _)
\* s.split(sep)[0] for a one-character separator: s up to its first sep
UpToFirst(s, sep) ==
    IF s = <<>> \/ s[1] = sep THEN <<>>
    ELSE <<s[1]>> \o UpToFirst(Tail(s), sep)

-----------------------------------------------------------------------------
(* Array.prototype.sort: a stable sort by the comparator's sign *)

\* compareFn with its operands swapped: oldest first
compareFnAscending(a, b) == ValueOfDiffSign(a.data.pubDate, b.data.pubDate)

\* a comparator on updatedDate where a record has one
compareFnUpdated(a, b) ==
    ValueOfDiffSign(IF "updatedDate" \in DOMAIN b.data
                    THEN b.data.updatedDate ELSE b.data.pubDate,
                    IF "updatedDate" \in DOMAIN a.data
                    THEN a.data.updatedDate ELSE a.data.pubDate)

\* (a, b) => b.data.pubDate.valueOf() - a.data.pubDate.valueOf(), by sign
compareFn(a, b) == ValueOfDiffSign(b.data.pubDate, a.data.pubDate)

\* InsertPost overwriting the element at the insertion point
InsertPostOverwrite(sorted, x) ==
    LET after == {k \in 1..Len(sorted) : compareFn(sorted[k], x) > 0}
        pos   == IF after = {} THEN Len(sorted) + 1
                 ELSE CHOOSE k \in after : \A j \in after : k <= j
    IN  SubSeq(sorted, 1, pos - 1) \o <<x>> \o SubSeq(sorted, pos + 1, Len(sorted))

\* x placed into the sorted array before the first element that the
\* comparator orders after it, so behind every element it ties with
InsertPost(sorted, x) ==
    LET after == {k \in 1..Len(sorted) : compareFn(sorted[k], x) > 0}
        pos   == IF after = {} THEN Len(sorted) + 1
                 ELSE CHOOSE k \in after : \A j \in after : k <= j
    IN  SubSeq(sorted, 1, pos - 1) \o <<x>> \o SubSeq(sorted, pos, Len(sorted))

RECURSIVE SortPostsFrom(_, _)
SortPostsFrom(sorted, rest) ==
    IF rest = <<>> THEN sorted
    ELSE SortPostsFrom(InsertPost(sorted, Head(rest)), Tail(rest))

\* posts.sort(compareFn)
SortPosts(posts) == SortPostsFrom(<<>>, posts)

RECURSIVE StrLess(_, _)
\* x < y for two strings: the comparison of code units that sort() makes
\* when it is given no comparator
StrLess(x, y) ==
    IF y = <<>> THEN FALSE
    ELSE IF x = <<>> THEN TRUE
    ELSE IF x[1] # y[1] THEN x[1] < y[1]
    ELSE StrLess(Tail(x), Tail(y))

InsertString(sorted, x) ==
    LET after == {k \in 1..Len(sorted) : StrLess(x, sorted[k])}
        pos   == IF after = {} THEN Len(sorted) + 1
                 ELSE CHOOSE k \in after : \A j \in after : k <= j
    IN  SubSeq(sorted, 1, pos - 1) \o <<x>> \o SubSeq(sorted, pos, Len(sorted))

RECURSIVE SortStringsFrom(_, _)
SortStringsFrom(sorted, rest) ==
    IF rest = <<>> THEN sorted
    ELSE SortStringsFrom(InsertString(sorted, Head(rest)), Tail(rest))

\* the array left in the order it has
SortStringsNone(strs) == strs

\* strs.sort()
SortStrings(strs) == SortStringsFrom(<<>>, strs)

RECURSIVE Dedup(_, _)
\* Array.from(new Set(arr)): the distinct elements, in order of first
\* occurrence
Dedup(seen, arr) ==
    IF arr = <<>> THEN seen
    ELSE IF \E k \in 1..Len(seen) : seen[k] = Head(arr)
         THEN Dedup(seen, Tail(arr))
         ELSE Dedup(Append(seen, Head(arr)), Tail(arr))

-----------------------------------------------------------------------------
(* The content store *)

\* the id of the i-th entry, as glob({ pattern: "**/*.md" }) derives it from
\* the path of the file below the base: p1, d/p2 (a file in a directory),
\* p3, ...
PostId(i) == IF i = 2 THEN <<100, 47, 112, 50>> ELSE <<112, 48 + i>>

Titles == {<<67, 43, 43, 32, 38, 32, 60, 84, 62>>}     \* C++ & <T>

\* 2025-01-01T00:00:00.000Z and 2025-02-01T00:00:00.000Z
PubDates == {[day |-> 20089, ms |-> 0], [day |-> 20120, ms |-> 0]}

\* description and tags of an entry: no description and no tags; A & B with
\* ["x"]; A & B with ["y", "x"]; no description with ["xy", "x", "xy"]
Contents ==
    {[description |-> <<>>, tags |-> <<>>],
     [description |-> <<65, 32, 38, 32, 66>>, tags |-> <<(<<120>>)>>],
     [description |-> <<65, 32, 38, 32, 66>>, tags |-> <<(<<121>>), (<<120>>)>>],
     [description |-> <<>>,
      tags |-> <<(<<120, 121>>), (<<120>>), (<<120, 121>>)>>]}

\* what the blog schema admits: every field of z.object is required
BlogData ==
    {[title |-> t, description |-> c.description,
      pubDate |-> d, tags |-> c.tags] :
         t \in Titles, c \in Contents, d \in PubDates}

\* the collections the loader can produce: up to MaxPosts entries with
\* distinct ids and schema-valid data
Stores ==
    UNION {{[i \in 1..n |-> [id |-> PostId(i), data |-> d[i]]] :
               d \in [1..n -> BlogData]} : n \in 0..MaxPosts}

\* the readings of the clock: 2025-03-15T08:30:15.042Z, then
\* 2025-03-16T00:00:00.000Z
Clock == <<[day |-> 20162, ms |-> 30615042], [day |-> 20163, ms |-> 0]>>

-----------------------------------------------------------------------------
(* announcements.atom: the feed GET *)

baseUrl == <<104, 116, 116, 112, 115, 58, 47, 47, 48, 120, 103, 104,
             111, 115, 116, 46, 100, 101, 118>>     \* https://0xghost.dev

blogPath == <<47, 98, 108, 111, 103, 47>>           \* /blog/

\* FeedEntry with the description put into <content> as it is
FeedEntryRawContent(post) ==
    [title     |-> escapeXml(Prop(post.data, "title")),
     link      |-> baseUrl \o blogPath \o Interpolate(Prop(post, "id")) \o <<47>>,
     id        |-> baseUrl \o blogPath \o Interpolate(Prop(post, "id")) \o <<47>>,
     updated   |-> toISOString(post.data.pubDate),
     summary   |-> escapeXml(Prop(post.data, "description")),
     content   |-> Interpolate(Prop(post.data, "description")),
     thumbnail |-> baseUrl \o <<47, 111, 103, 47>>
                       \o Interpolate(Prop(post, "id")) \o <<46, 112, 110, 103>>]

\* one <entry> element: the values the template interpolates
FeedEntry(post) ==
    [title     |-> escapeXml(Prop(post.data, "title")),
     link      |-> baseUrl \o blogPath \o Interpolate(Prop(post, "id")) \o <<47>>,
     id        |-> baseUrl \o blogPath \o Interpolate(Prop(post, "id")) \o <<47>>,
     updated   |-> toISOString(post.data.pubDate),
     summary   |-> escapeXml(Prop(post.data, "description")),
     content   |-> escapeXml(Prop(post.data, "description")),
     thumbnail |-> baseUrl \o <<47, 111, 103, 47>>
                       \o Interpolate(Prop(post, "id")) \o <<46, 112, 110, 103>>]

\* LastUpdated reading the last element of the array
LastUpdatedOfLast(sortedPosts, clock) ==
    IF Len(sortedPosts) > 0
    THEN sortedPosts[Len(sortedPosts)].data.pubDate ELSE clock

\* LastUpdated reading the clock whatever the posts are
LastUpdatedNow(sortedPosts, clock) == clock

\* sortedPosts[0]?.data.pubDate || new Date()
LastUpdated(sortedPosts, clock) ==
    IF Len(sortedPosts) > 0 THEN sortedPosts[1].data.pubDate ELSE clock

\* the feed template
FeedDocument(sortedPosts, clock) ==
    [updated |-> toISOString(LastUpdated(sortedPosts, clock)),
     entries |-> [i \in 1..Len(sortedPosts) |-> FeedEntry(sortedPosts[i])]]

\* const posts = await getCollection('blog')
FeedFetch ==
    /\ feedPc = "idle"
    /\ feedPosts' = store
    /\ feedPc' = "fetched"
    /\ UNCHANGED <<store, now, feedResponse, indexPc, indexPosts,
                   indexResponse, unsafe, escaped, escPc,
                   ogVars, contentChanged, entryVars>>

\* the rest of GET: posts.sort sorts the array in place and returns it, the
\* template is filled and the Response returned
FeedRender ==
    /\ feedPc = "fetched"
    /\ feedPosts' = SortPosts(feedPosts)
    /\ feedResponse' = FeedDocument(feedPosts', now)
    /\ feedPc' = "idle"
    /\ UNCHANGED <<store, now, indexPc, indexPosts, indexResponse,
                   unsafe, escaped, escPc,
                   ogVars, contentChanged, entryVars>>

-----------------------------------------------------------------------------
(* llms.txt: the index GET *)

\* one post block: the values the template interpolates
IndexPost(post) ==
    [title       |-> Interpolate(Prop(post.data, "title")),
     url         |-> baseUrl \o blogPath \o Interpolate(Prop(post, "slug")) \o <<47>>,
     published   |-> UpToFirst(toISOString(post.data.pubDate), 84),
     tags        |-> IF Nullish(post.data, "tags") THEN <<110, 111, 110, 101>>
                     ELSE Join(post.data.tags, <<44, 32>>),
     description |-> IF Nullish(post.data, "description")
                     THEN <<78, 111, 32, 100, 101, 115, 99, 114, 105, 112,
                            116, 105, 111, 110, 32, 112, 114, 111, 118, 105,
                            100, 101, 100, 46>>
                     ELSE post.data.description]

\* the tags of the first post only: sortedPosts[0].data.tags
FlatMapTagsFirst(sortedPosts) ==
    IF sortedPosts = <<>> THEN <<>> ELSE sortedPosts[1].data.tags

\* sortedPosts.flatMap(p => p.data.tags)
FlatMapTags(sortedPosts) ==
    Flatten([i \in 1..Len(sortedPosts) |-> sortedPosts[i].data.tags])

\* TagIndex without the Set
TagIndexNoSet(sortedPosts) == SortStrings(FlatMapTags(sortedPosts))

\* TagIndex from the tags joined and split again: ''.split(',') is ['']
TagIndexSplit(sortedPosts) ==
    IF FlatMapTags(sortedPosts) = <<>> THEN <<(<<>>)>>
    ELSE SortStrings(Dedup(<<>>, FlatMapTags(sortedPosts)))

\* Array.from(new Set(...)).sort()
TagIndex(sortedPosts) == SortStrings(Dedup(<<>>, FlatMapTags(sortedPosts)))

\* TagLine with the url of the tags overview: ${baseUrl}/tags/
TagLineOverview(tag) ==
    [tag |-> tag,
     url |-> baseUrl \o <<47, 116, 97, 103, 115, 47>>]

\* one line of the Tags section: - ${tag}: ${baseUrl}/tags/${tag}/
TagLine(tag) ==
    [tag |-> tag,
     url |-> baseUrl \o <<47, 116, 97, 103, 115, 47>> \o tag \o <<47>>]

\* IndexDocument with every post block dated by the clock
IndexDocumentDated(sortedPosts, clock) ==
    [total       |-> Len(sortedPosts),
     posts       |-> [i \in 1..Len(sortedPosts) |->
                         [IndexPost(sortedPosts[i]) EXCEPT
                             !.published = UpToFirst(toISOString(clock), 84)]],
     tagLines    |-> LET tagIndex == TagIndex(sortedPosts)
                     IN  [i \in 1..Len(tagIndex) |-> TagLine(tagIndex[i])],
     lastUpdated |-> UpToFirst(toISOString(clock), 84)]

\* IndexDocument counting the tags in its heading
IndexDocumentTagCount(sortedPosts, clock) ==
    [total       |-> Len(TagIndex(sortedPosts)),
     posts       |-> [i \in 1..Len(sortedPosts) |-> IndexPost(sortedPosts[i])],
     tagLines    |-> LET tagIndex == TagIndex(sortedPosts)
                     IN  [i \in 1..Len(tagIndex) |-> TagLine(tagIndex[i])],
     lastUpdated |-> UpToFirst(toISOString(clock), 84)]

\* the llms.txt template
IndexDocument(sortedPosts, clock) ==
    [total       |-> Len(sortedPosts),
     posts       |-> [i \in 1..Len(sortedPosts) |-> IndexPost(sortedPosts[i])],
     tagLines    |-> LET tagIndex == TagIndex(sortedPosts)
                     IN  [i \in 1..Len(tagIndex) |-> TagLine(tagIndex[i])],
     lastUpdated |-> UpToFirst(toISOString(clock), 84)]

\* IndexFetch taking the array the feed GET holds
IndexFetchShared ==
    /\ indexPc = "idle"
    /\ indexPosts' = feedPosts
    /\ indexPc' = "fetched"
    /\ UNCHANGED <<store, now, feedPc, feedPosts, feedResponse,
                   indexResponse, unsafe, escaped, escPc,
                   ogVars, contentChanged, entryVars>>

\* const posts = await getCollection('blog')
IndexFetch ==
    /\ indexPc = "idle"
    /\ indexPosts' = store
    /\ indexPc' = "fetched"
    /\ UNCHANGED <<store, now, feedPc, feedPosts, feedResponse,
                   indexResponse, unsafe, escaped, escPc,
                   ogVars, contentChanged, entryVars>>

\* the rest of GET: the sort in place, the template, the Response
IndexRender ==
    /\ indexPc = "fetched"
    /\ indexPosts' = SortPosts(indexPosts)
    /\ indexResponse' = IndexDocument(indexPosts', now)
    /\ indexPc' = "idle"
    /\ UNCHANGED <<store, now, feedPc, feedPosts, feedResponse,
                   unsafe, escaped, escPc,
                   ogVars, contentChanged, entryVars>>

-----------------------------------------------------------------------------
(* og/[...route]: the OG image route *)

\* pages keyed by the position of the entry: entries.map((post, i) => [i, post.data])
OgPagesByPosition(entries) ==
    [key \in {ToDecimal(i - 1) : i \in 1..Len(entries)} |->
        entries[CHOOSE i \in 1..Len(entries) : ToDecimal(i - 1) = key].data]

\* Object.fromEntries(entries.map((post) => [post.id, post.data])): an object
\* keyed by id; of two entries with one id the later one stays
OgPagesOf(entries) ==
    [id \in {entries[i].id : i \in 1..Len(entries)} |->
        entries[CHOOSE i \in 1..Len(entries) :
                   /\ entries[i].id = id
                   /\ \A j \in (i + 1)..Len(entries) : entries[j].id # id].data]

\* getSlug giving every page one file name: og.png
getSlugFixed(path, page) == <<111, 103, 46, 112, 110, 103>>

\* getSlug with the extension .webp
getSlugWebp(path, page) == path \o <<46, 119, 101, 98, 112>>

\* getSlug: (_path, page) => _path + '.png'
getSlug(path, page) == path \o <<46, 112, 110, 103>>

\* getImageOptions with a border as wide as the page has tags
getImageOptionsTagged(path, page) ==
    [title       |-> Prop(page, "title"),
     description |-> Prop(page, "description"),
     bgGradient  |-> <<(<<9, 9, 11>>)>>,
     border      |-> [color |-> <<74, 222, 128>>, width |-> Len(page.tags)],
     padding     |-> 60,
     font        |-> [title |-> [size |-> 80,
                                 families |-> <<"JetBrains Mono">>,
                                 weight |-> "Bold",
                                 color |-> <<255, 255, 255>>],
                      description |-> [size |-> 40,
                                       families |-> <<"JetBrains Mono">>,
                                       color |-> <<161, 161, 170>>,
                                       lineHeight |-> "1.4"]],
     logo        |-> [path |-> "./public/favicon.svg", size |-> <<100>>]]

\* getImageOptions: title and description of the page, and the fixed theme
getImageOptions(path, page) ==
    [title       |-> Prop(page, "title"),
     description |-> Prop(page, "description"),
     bgGradient  |-> <<(<<9, 9, 11>>)>>,
     border      |-> [color |-> <<74, 222, 128>>, width |-> 20],
     padding     |-> 60,
     font        |-> [title |-> [size |-> 80,
                                 families |-> <<"JetBrains Mono">>,
                                 weight |-> "Bold",
                                 color |-> <<255, 255, 255>>],
                      description |-> [size |-> 40,
                                       families |-> <<"JetBrains Mono">>,
                                       color |-> <<161, 161, 170>>,
                                       lineHeight |-> "1.4"]],
     logo        |-> [path |-> "./public/favicon.svg", size |-> <<100>>]]

\* what OGImageRoute derives from pages: for each page the file name from
\* getSlug and the render options from getImageOptions
OgRequests(pages) ==
    {[file    |-> getSlug(path, pages[path]),
      options |-> getImageOptions(path, pages[path])] : path \in DOMAIN pages}

\* the module is evaluated (again, in a fresh instance, when it was loaded
\* before): const entries = await getCollection('blog')
OgFetch ==
    /\ ogPc \in {"unloaded", "loaded"}
    /\ ogEntries' = store
    /\ ogPages' = <<>>
    /\ ogPc' = "fetched"
    /\ UNCHANGED <<pipelineVars, escapeVars, ogResponse, contentChanged,
                   entryVars>>

\* the rest of the module: pages, and the route made by OGImageRoute
OgBuild ==
    /\ ogPc = "fetched"
    /\ ogPages' = OgPagesOf(ogEntries)
    /\ ogPc' = "loaded"
    /\ UNCHANGED <<pipelineVars, escapeVars, ogEntries, ogResponse,
                   contentChanged, entryVars>>

\* the route serves its render requests from the module's pages
OgGet ==
    /\ ogPc = "loaded"
    /\ ogResponse' = [requests |-> OgRequests(ogPages)]
    /\ UNCHANGED <<pipelineVars, escapeVars, ogPc, ogEntries, ogPages,
                   contentChanged, entryVars>>

-----------------------------------------------------------------------------
(* The specifications' idle parts *)

\* no escapeXml call under test
EscapeIdle ==
    /\ unsafe = <<>>
    /\ escaped = <<>>
    /\ escPc = "none"

\* the OG route module not evaluated yet
OgIdle ==
    /\ ogPc = "unloaded"
    /\ ogEntries = <<>>
    /\ ogPages = <<>>
    /\ ogResponse = NoResponse

\* no feed entry under test
EntryIdle ==
    /\ entryPost = NoResponse
    /\ entryOut = NoResponse
    /\ entryPc = "none"

-----------------------------------------------------------------------------
(* The pipeline specification *)

\* time passes
Tick ==
    /\ now = Clock[1]
    /\ now' = Clock[2]
    /\ UNCHANGED <<store, feedPc, feedPosts, feedResponse,
                   indexPc, indexPosts, indexResponse, unsafe, escaped, escPc,
                   ogVars, contentChanged, entryVars>>

Init ==
    /\ store \in Stores
    /\ now = Clock[1]
    /\ feedPc = "idle"
    /\ feedPosts = <<>>
    /\ feedResponse = NoResponse
    /\ indexPc = "idle"
    /\ indexPosts = <<>>
    /\ indexResponse = NoResponse
    /\ EscapeIdle
    /\ OgIdle
    /\ contentChanged = FALSE
    /\ EntryIdle

Next ==
    \/ FeedFetch
    \/ FeedRender
    \/ IndexFetch
    \/ IndexRender
    \/ Tick

Spec == Init /\ [][Next]_vars

-----------------------------------------------------------------------------
(* The site specification: the feed, the index and the OG route together *)

MaxSitePosts == 2

\* up to n entries with distinct ids and data of the given set
StoresOf(n, data) ==
    UNION {{[i \in 1..k |-> [id |-> PostId(i), data |-> d[i]]] :
               d \in [1..k -> data]} : k \in 0..n}

InitSite ==
    /\ store \in StoresOf(MaxSitePosts, BlogData)
    /\ now = Clock[1]
    /\ feedPc = "idle"
    /\ feedPosts = <<>>
    /\ feedResponse = NoResponse
    /\ indexPc = "idle"
    /\ indexPosts = <<>>
    /\ indexResponse = NoResponse
    /\ EscapeIdle
    /\ OgIdle
    /\ contentChanged = FALSE
    /\ EntryIdle

NextSite ==
    \/ FeedFetch
    \/ FeedRender
    \/ IndexFetch
    \/ IndexRender
    \/ OgFetch
    \/ OgBuild
    \/ OgGet
    \/ Tick

SpecSite == InitSite /\ [][NextSite]_vars

-----------------------------------------------------------------------------
(* The content specification: the site while an article is published or *)
(* withdrawn                                                            *)

\* the data of the articles of the content specification: no description,
\* no tags, either pubDate
PlainData == {d \in BlogData : d.description = <<>> /\ d.tags = <<>>}

\* the content of the store changes, once: an article is added at the end
\* of the collection, or the last one is removed
ContentChange ==
    /\ ~contentChanged
    /\ contentChanged' = TRUE
    /\ \/ /\ Len(store) < MaxSitePosts
          /\ \E d \in PlainData :
                store' = Append(store, [id |-> PostId(Len(store) + 1), data |-> d])
       \/ /\ Len(store) > 0
          /\ store' = SubSeq(store, 1, Len(store) - 1)
    /\ UNCHANGED <<now, feedPc, feedPosts, feedResponse, indexPc, indexPosts,
                   indexResponse, escapeVars, ogVars, entryVars>>

InitContent ==
    /\ store \in StoresOf(MaxSitePosts, PlainData)
    /\ now = Clock[1]
    /\ feedPc = "idle"
    /\ feedPosts = <<>>
    /\ feedResponse = NoResponse
    /\ indexPc = "idle"
    /\ indexPosts = <<>>
    /\ indexResponse = NoResponse
    /\ EscapeIdle
    /\ OgIdle
    /\ contentChanged = FALSE
    /\ EntryIdle

NextContent ==
    \/ FeedFetch
    \/ FeedRender
    \/ IndexFetch
    \/ IndexRender
    \/ OgFetch
    \/ OgBuild
    \/ OgGet
    \/ ContentChange

SpecContent == InitContent /\ [][NextContent]_vars

-----------------------------------------------------------------------------
(* Inputs of the escapeXml specification *)

\* the description of the spec's example: A & B <"quote">
ExampleDescription ==
    <<65, 32, 38, 32, 66, 32, 60, 34, 113, 117, 111, 116, 101, 34, 62>>

\* code units the bounded inputs are made of: the five XML-significant
\* characters, plain letters, '#' and ';', a digit, TAB, DEL, U+00E9,
\* U+20AC, and the surrogate pair of U+1F600
EscAlphabet ==
    {60, 62, 38, 39, 34, 65, 32, 35, 59, 49, 9, 127, 233, 8364, 55357, 56832}

RECURSIVE StringsUpTo(_)
StringsUpTo(n) ==
    IF n = 0 THEN {<<>>}
    ELSE LET shorter == StringsUpTo(n - 1)
         IN  shorter \cup {Append(s, c) : s \in shorter, c \in EscAlphabet}

EscInputs == StringsUpTo(MaxLen) \cup {ExampleDescription, Undefined, Null}

-----------------------------------------------------------------------------
(* The escapeXml specification: one call on a bounded input *)

PipelineIdle ==
    /\ store = <<>>
    /\ now = Clock[1]
    /\ feedPc = "idle"
    /\ feedPosts = <<>>
    /\ feedResponse = NoResponse
    /\ indexPc = "idle"
    /\ indexPosts = <<>>
    /\ indexResponse = NoResponse
    /\ OgIdle
    /\ contentChanged = FALSE

InitEscape ==
    /\ PipelineIdle
    /\ EntryIdle
    /\ unsafe \in EscInputs
    /\ escaped = <<>>
    /\ escPc = "call"

EscapeCall ==
    /\ escPc = "call"
    /\ escaped' = escapeXml(unsafe)
    /\ escPc' = "done"
    /\ UNCHANGED <<unsafe, pipelineVars, ogVars, contentChanged, entryVars>>

NextEscape == EscapeCall

SpecEscape == InitEscape /\ [][NextEscape]_vars

-----------------------------------------------------------------------------
(* The updatedDate specification: the feed and the index over records that *)
(* may have an updatedDate                                                *)

\* updatedDate values: 2024-12-01, before every pubDate, and 2025-03-03,
\* after every pubDate
UpdatedDates == {[day |-> 20058, ms |-> 0], [day |-> 20150, ms |-> 0]}

\* updatedDate: z.date().optional(): the data of an article without the
\* field, or with it
UpdatedData ==
    PlainData \cup
    {[title |-> d.title, description |-> d.description, pubDate |-> d.pubDate,
      tags |-> d.tags, updatedDate |-> u] : d \in PlainData, u \in UpdatedDates}

InitUpdated ==
    /\ store \in StoresOf(MaxSitePosts, UpdatedData)
    /\ now = Clock[1]
    /\ feedPc = "idle"
    /\ feedPosts = <<>>
    /\ feedResponse = NoResponse
    /\ indexPc = "idle"
    /\ indexPosts = <<>>
    /\ indexResponse = NoResponse
    /\ EscapeIdle
    /\ OgIdle
    /\ contentChanged = FALSE
    /\ EntryIdle

SpecUpdated == InitUpdated /\ [][Next]_vars

-----------------------------------------------------------------------------
(* The entry specification: one <entry> element from one record *)

\* ids: p1, a&b, a<b, a>b, a'b, a"b
EntryIds ==
    {<<112, 49>>, <<97, 38, 98>>, <<97, 60, 98>>, <<97, 62, 98>>,
     <<97, 39, 98>>, <<97, 34, 98>>}

\* titles: those of the store, T, and "q"'s
EntryTitles == Titles \cup {<<84>>, <<34, 113, 34, 39, 115>>}

\* descriptions: the empty one, A & B, the spec's example, U+00E9
EntryDescriptions ==
    {<<>>, <<65, 32, 38, 32, 66>>, ExampleDescription, <<233>>}

EntryPosts ==
    {[id |-> id,
      data |-> [title |-> t, description |-> d, pubDate |-> p, tags |-> <<>>]] :
        id \in EntryIds, t \in EntryTitles, d \in EntryDescriptions,
        p \in PubDates}

InitEntry ==
    /\ PipelineIdle
    /\ EscapeIdle
    /\ entryPost \in EntryPosts
    /\ entryOut = NoResponse
    /\ entryPc = "call"

\* the body of sortedPosts.map((post) => `<entry>...</entry>`) for one post
EntryRender ==
    /\ entryPc = "call"
    /\ entryOut' = FeedEntry(entryPost)
    /\ entryPc' = "done"
    /\ UNCHANGED <<entryPost, pipelineVars, escapeVars, ogVars, contentChanged>>

NextEntry == EntryRender

SpecEntry == InitEntry /\ [][NextEntry]_vars

-----------------------------------------------------------------------------
(* Claims about escapeXml, checked under SpecEscape *)

\* A & B &lt;&quot;quote&quot;&gt; with A &amp; B in front: the spec's
\* expected escape of ExampleDescription
ExampleEscaped ==
    <<65, 32, 38, 97, 109, 112, 59, 32, 66, 32, 38, 108, 116, 59,
      38, 113, 117, 111, 116, 59, 113, 117, 111, 116, 101,
      38, 113, 117, 111, 116, 59, 38, 103, 116, 59>>

\* the spec's table of named entities
NamedEntities ==
    [c \in {60, 62, 38, 39, 34} |->
        CASE c = 60 -> <<38, 108, 116, 59>>
          [] c = 62 -> <<38, 103, 116, 59>>
          [] c = 38 -> <<38, 97, 109, 112, 59>>
          [] c = 39 -> <<38, 97, 112, 111, 115, 59>>
          [] c = 34 -> <<38, 113, 117, 111, 116, 59>>]

IsString(s) == s # Undefined /\ s # Null

\* p occurs in s starting at position i
OccursAt(p, s, i) ==
    /\ i + Len(p) - 1 <= Len(s)
    /\ \A k \in 1..Len(p) : s[i + k - 1] = p[k]

\* &#<digits>; occurs in s starting at position i
NumericRefAt(s, i) ==
    /\ OccursAt(<<38, 35>>, s, i)
    /\ \E j \in (i + 3)..Len(s) :
          /\ s[j] = 59
          /\ \A k \in (i + 2)..(j - 1) : s[k] >= 48 /\ s[k] <= 57

\* C4: escapeXml replaces each of < > & ' " by its named entity (a code
\* unit from U+0080 up becoming a numeric reference, every other one staying
\* as it is), and the description A & B <"quote"> escapes to
\* A &amp; B &lt;&quot;quote&quot;&gt;.
C4_NamedEntities ==
    (escPc = "done" /\ IsString(unsafe)) =>
        /\ escaped = Flatten([i \in 1..Len(unsafe) |->
                          IF unsafe[i] \in DOMAIN NamedEntities
                          THEN NamedEntities[unsafe[i]]
                          ELSE IF unsafe[i] < 128 THEN <<unsafe[i]>>
                          ELSE <<38, 35>> \o ToDecimal(unsafe[i]) \o <<59>>])
        /\ unsafe = ExampleDescription => escaped = ExampleEscaped

C4_Witness == escPc = "done" /\ unsafe = ExampleDescription

\* C5: the output of escapeXml holds no literal < > ' or ", and every & in
\* it starts one of &lt; &gt; &amp; &apos; &quot; or a numeric reference
\* &#N;.
C5_NoLiteralMarkup ==
    escPc = "done" =>
        \A i \in 1..Len(escaped) :
            /\ escaped[i] \notin {60, 62, 39, 34}
            /\ escaped[i] = 38 =>
                  \/ \E c \in DOMAIN NamedEntities :
                        OccursAt(NamedEntities[c], escaped, i)
                  \/ NumericRefAt(escaped, i)

C5_Witness == escPc = "done" /\ unsafe = <<38, 60, 233>>

RECURSIVE CodePoints(_)
\* the Unicode code points of a string: a high surrogate followed by a low
\* surrogate is one code point above U+FFFF
CodePoints(s) ==
    IF s = <<>> THEN <<>>
    ELSE IF /\ Len(s) >= 2
            /\ s[1] >= 55296 /\ s[1] <= 56319
            /\ s[2] >= 56320 /\ s[2] <= 57343
         THEN <<65536 + (s[1] - 55296) * 1024 + (s[2] - 56320)>>
                  \o CodePoints(Tail(Tail(s)))
         ELSE <<s[1]>> \o CodePoints(Tail(s))

\* C6: escapeXml replaces every character outside the printable Basic Latin
\* range (below U+0020, U+007F, U+0080 and up, also above U+FFFF) by
\* &#<code point>;, so the output holds printable Basic Latin only.
C6_NumericReferences ==
    (escPc = "done" /\ IsString(unsafe)) =>
        /\ escaped =
              LET cps == CodePoints(unsafe)
              IN  Flatten([i \in 1..Len(cps) |->
                      IF cps[i] \in DOMAIN NamedEntities
                      THEN NamedEntities[cps[i]]
                      ELSE IF cps[i] >= 32 /\ cps[i] <= 126
                      THEN <<cps[i]>>
                      ELSE <<38, 35>> \o ToDecimal(cps[i]) \o <<59>>])
        /\ \A i \in 1..Len(escaped) : escaped[i] >= 32 /\ escaped[i] <= 126

-----------------------------------------------------------------------------
(* Claims about the feed and the index, checked under Spec *)

\* the step of the feed GET that sorts and renders
FeedRenderStep == feedPc = "fetched" /\ feedPc' = "idle"

\* the step of the index GET that sorts and renders
IndexRenderStep == indexPc = "fetched" /\ indexPc' = "idle"

FeedServed == feedPc = "idle" /\ feedResponse # NoResponse

IndexServed == indexPc = "idle" /\ indexResponse # NoResponse

\* date a is not later than date b
DateLeq(a, b) == a.day < b.day \/ (a.day = b.day /\ a.ms <= b.ms)

\* the position of a record in an array that holds it once
PositionIn(arr, r) == CHOOSE k \in 1..Len(arr) : arr[k] = r

\* view is sorted by pubDate, latest first, and records of equal pubDate
\* keep the order they have in input
IsOrderedViewOf(view, input) ==
    /\ Len(view) = Len(input)
    /\ \A i, j \in 1..Len(view) :
          i < j => DateLeq(view[j].data.pubDate, view[i].data.pubDate)
    /\ \A i, j \in 1..Len(input) :
          (i < j /\ input[i].data.pubDate = input[j].data.pubDate) =>
              /\ \E k \in 1..Len(view) : view[k] = input[i]
              /\ \E k \in 1..Len(view) : view[k] = input[j]
              /\ PositionIn(view, input[i]) < PositionIn(view, input[j])

\* C1: the Ordered View of the feed GET and of the index GET is sorted by
\* pubDate non-increasing, and records with equal pubDate keep the relative
\* order of the input collection.
C1_OrderedViewSortedStable ==
    [][/\ FeedRenderStep => IsOrderedViewOf(feedPosts', feedPosts)
       /\ IndexRenderStep => IsOrderedViewOf(indexPosts', indexPosts)]_vars

\* both GETs have served a store of three records in which the first two tie
\* on pubDate and the third is later, so the sort had to move records
C1_Witness ==
    /\ FeedServed /\ IndexServed
    /\ Len(store) = 3
    /\ store[1].data.pubDate = store[2].data.pubDate
    /\ store[1].data.pubDate # store[3].data.pubDate
    /\ DateLeq(store[1].data.pubDate, store[3].data.pubDate)
    /\ feedPosts = <<store[3], store[1], store[2]>>
    /\ indexPosts = feedPosts

\* the number of positions of arr that hold r
Occurrences(arr, r) == Cardinality({k \in 1..Len(arr) : arr[k] = r})

IsPermutationOf(view, input) ==
    /\ Len(view) = Len(input)
    /\ \A k \in 1..Len(input) :
          Occurrences(view, input[k]) = Occurrences(input, input[k])

\* the canonical URL of a record: https://0xghost.dev/blog/<id>/
CanonicalUrl(id) ==
    <<104, 116, 116, 112, 115, 58, 47, 47, 48, 120, 103, 104, 111, 115,
      116, 46, 100, 101, 118, 47, 98, 108, 111, 103, 47>> \o id \o <<47>>

\* C2: the Ordered View is a permutation of the input collection (no record
\* dropped, none duplicated); the feed holds exactly one entry per record
\* and the index exactly one post block per record.
C2_PermutationOnePerRecord ==
    [][/\ FeedRenderStep =>
            /\ IsPermutationOf(feedPosts', feedPosts)
            /\ Len(feedResponse'.entries) = Len(feedPosts)
            /\ \A k \in 1..Len(feedPosts) :
                  Cardinality({e \in 1..Len(feedResponse'.entries) :
                      feedResponse'.entries[e].id
                          = CanonicalUrl(feedPosts[k].id)}) = 1
       /\ IndexRenderStep =>
            /\ IsPermutationOf(indexPosts', indexPosts)
            /\ Len(indexResponse'.posts) = Len(indexPosts)
            /\ indexResponse'.total = Len(indexPosts)
            /\ \A k \in 1..Len(indexPosts') :
                  /\ indexResponse'.posts[k].title = indexPosts'[k].data.title
                  /\ indexResponse'.posts[k].published
                        = SubSeq(toISOString(indexPosts'[k].data.pubDate), 1, 10)]_vars

\* both GETs have served a store of three records that the sort reordered
C2_Witness ==
    /\ FeedServed /\ IndexServed
    /\ Len(store) = 3
    /\ feedPosts # store
    /\ indexPosts # store
    /\ Len(feedResponse.entries) = 3
    /\ Len(indexResponse.posts) = 3

\* string x is before string y in the order of code units
LexLess(x, y) ==
    \E k \in 1..Len(y) :
        /\ k <= Len(x) + 1
        /\ \A j \in 1..(k - 1) : x[j] = y[j]
        /\ k = Len(x) + 1 \/ x[k] < y[k]

\* every tag of every record of posts
AllTags(posts) ==
    UNION {{posts[i].data.tags[k] : k \in 1..Len(posts[i].data.tags)} :
              i \in 1..Len(posts)}

\* C3: the Tags section of the index is the sorted, duplicate-free union of
\* every record's tags: each tag of each record once, nothing else, in
\* ascending order.
C3_TagIndex ==
    IndexServed =>
        LET lines == indexResponse.tagLines
        IN  /\ {lines[i].tag : i \in 1..Len(lines)} = AllTags(indexPosts)
            /\ Len(lines) = Cardinality(AllTags(indexPosts))
            /\ \A i, j \in 1..Len(lines) :
                  i < j => LexLess(lines[i].tag, lines[j].tag)

\* the index has served records that share the tag x, one of them listing y
\* before x
C3_Witness ==
    /\ IndexServed
    /\ \E i, j \in 1..Len(indexPosts) :
          /\ i # j
          /\ indexPosts[i].data.tags = <<(<<121>>), (<<120>>)>>
          /\ indexPosts[j].data.tags = <<(<<120>>)>>
    /\ Len(indexResponse.tagLines) = 2

\* the latest pubDate of a non-empty array of records
MaxPubDate(posts) ==
    posts[CHOOSE k \in 1..Len(posts) :
              \A j \in 1..Len(posts) :
                  DateLeq(posts[j].data.pubDate, posts[k].data.pubDate)].data.pubDate

\* C7: the feed's document-level <updated> is the pubDate of the first entry
\* of the Ordered View, the maximum pubDate of all records, when the store
\* is non-empty, and the current time at synthesis when it is empty.
C7_FeedUpdated ==
    [][FeedRenderStep =>
          IF feedPosts = <<>>
          THEN feedResponse'.updated = toISOString(now)
          ELSE /\ feedResponse'.updated = feedResponse'.entries[1].updated
               /\ feedResponse'.updated = toISOString(feedPosts'[1].data.pubDate)
               /\ feedResponse'.updated = toISOString(MaxPubDate(feedPosts))]_vars

\* the feed has served a store whose latest record is not the first one
C7_Witness ==
    /\ FeedServed
    /\ Len(feedPosts) >= 2
    /\ store[1].data.pubDate # MaxPubDate(store)
    /\ feedResponse.updated = toISOString(MaxPubDate(store))

\* C8: for every record, the URL written by the index and the link and id
\* URL written by the feed are the same string https://0xghost.dev/blog/<id>/
\* built from the record's id.
C8_SameCanonicalUrl ==
    (FeedServed /\ IndexServed /\ feedPosts = indexPosts) =>
        \A k \in 1..Len(indexPosts) :
            /\ feedResponse.entries[k].link = CanonicalUrl(feedPosts[k].id)
            /\ feedResponse.entries[k].id = CanonicalUrl(feedPosts[k].id)
            /\ indexResponse.posts[k].url = CanonicalUrl(indexPosts[k].id)
            /\ indexResponse.posts[k].url = feedResponse.entries[k].link

\* C9: in the index, the Tags line of a record with an empty tags list is
\* the token none; for a non-empty list it is the tags joined by ", ".
C9_TagsLine ==
    IndexServed =>
        \A k \in 1..Len(indexPosts) :
            indexResponse.posts[k].tags =
                IF indexPosts[k].data.tags = <<>>
                THEN <<110, 111, 110, 101>>
                ELSE Join(indexPosts[k].data.tags, <<44, 32>>)

\* C10: in the index, a record whose description is empty or missing gets
\* No description provided. on its Description line; a record with a
\* non-empty description gets that description verbatim.
C10_DescriptionLine ==
    IndexServed =>
        \A k \in 1..Len(indexPosts) :
            indexResponse.posts[k].description =
                IF \/ "description" \notin DOMAIN indexPosts[k].data
                   \/ indexPosts[k].data.description = <<>>
                THEN <<78, 111, 32, 100, 101, 115, 99, 114, 105, 112, 116,
                       105, 111, 110, 32, 112, 114, 111, 118, 105, 100,
                       101, 100, 46>>
                ELSE indexPosts[k].data.description

-----------------------------------------------------------------------------
(* Claims about repeated runs, checked under SpecSite and Spec *)

\* C11 as stated: over one record set a run of the feed GET returns the
\* document the run before it returned, whatever the record set and the
\* clock, and the OG route serves the render requests it served before
C11_RunsIdentical ==
    [][/\ (FeedRenderStep /\ feedResponse # NoResponse)
             => feedResponse' = feedResponse
       /\ ogResponse # NoResponse => ogResponse' = ogResponse]_vars

\* C11 (amended): over one record set that is not empty a run of the feed
\* GET returns the document the run before it returned, whatever the
\* clock; over the empty record set it returns the same (zero) entries;
\* the OG route serves the render requests it served before
C11_RunsIdenticalNonEmpty ==
    [][/\ (FeedRenderStep /\ feedResponse # NoResponse)
             => /\ feedResponse'.entries = feedResponse.entries
                /\ feedPosts # <<>> => feedResponse' = feedResponse
       /\ ogResponse # NoResponse => ogResponse' = ogResponse]_vars

\* a second run of the feed GET is under way over two records at the later
\* reading of the clock, and the OG module has been evaluated again after
\* it served its requests
C11_Witness ==
    /\ feedPc = "fetched"
    /\ feedResponse # NoResponse
    /\ Len(feedPosts) = MaxSitePosts
    /\ now = Clock[2]
    /\ ogPc = "fetched"
    /\ ogResponse # NoResponse

\* the fields of an index document other than the 'Last updated:' line
ExceptLastUpdated(doc) == [f \in DOMAIN doc \ {"lastUpdated"} |-> doc[f]]

\* C12: a run of the index GET over the content of the run before it
\* returns a document that differs from the earlier one at most in the
\* 'Last updated:' line
C12_IndexDiffersInLastUpdated ==
    [][(IndexRenderStep /\ indexResponse # NoResponse)
          => ExceptLastUpdated(indexResponse') = ExceptLastUpdated(indexResponse)]_vars

\* a second run of the index GET is under way on the day after the first
C12_Witness ==
    /\ indexPc = "fetched"
    /\ indexResponse # NoResponse
    /\ indexResponse.lastUpdated = UpToFirst(toISOString(Clock[1]), 84)
    /\ now = Clock[2]
    /\ Len(indexPosts) = MaxPosts

-----------------------------------------------------------------------------
(* Claims about the three artifacts together, checked under SpecSite *)

\* C13: on an empty store every operation completes: the feed served has
\* zero entries, the index served reports 0 posts with no post block and
\* no tag line, the OG route has no page and serves no render request
C13_EmptyStore ==
    store = <<>> =>
        /\ feedPc = "fetched" => ENABLED FeedRender
        /\ indexPc = "fetched" => ENABLED IndexRender
        /\ ogPc = "fetched" => ENABLED OgBuild
        /\ ogPc = "loaded" => ENABLED OgGet
        /\ FeedServed => feedResponse.entries = <<>>
        /\ IndexServed => /\ indexResponse.total = 0
                          /\ indexResponse.posts = <<>>
                          /\ indexResponse.tagLines = <<>>
        /\ ogPc = "loaded" => DOMAIN ogPages = {}
        /\ ogResponse # NoResponse => ogResponse.requests = {}

\* the three artifacts have been served from an empty store
C13_Witness ==
    /\ store = <<>>
    /\ FeedServed
    /\ IndexServed
    /\ ogPc = "loaded"
    /\ ogResponse # NoResponse

\* the arrays that hold the records of arr in some order
OrdersOf(arr) ==
    {[i \in 1..Len(arr) |-> arr[f[i]]] :
        f \in {g \in [1..Len(arr) -> 1..Len(arr)] :
                  \A i, j \in 1..Len(arr) : g[i] = g[j] => i = j}}

\* the render request of a record: <id>.png, its title and description, and
\* the fixed theme
RequestOf(r) ==
    [file    |-> r.id \o <<46, 112, 110, 103>>,
     options |-> getImageOptions(r.id, r.data)]

\* C14: the OG route holds one page per record of the store, addressed by
\* the record's id; it serves exactly one render request per record, with
\* the file name <id>.png and the record's title and description; and the
\* records in any other order give the same pages and requests
C14_OneRequestPerId ==
    ogPc = "loaded" =>
        /\ DOMAIN ogPages = {store[i].id : i \in 1..Len(store)}
        /\ \A i \in 1..Len(store) : ogPages[store[i].id] = store[i].data
        /\ OgRequests(ogPages) = {RequestOf(store[i]) : i \in 1..Len(store)}
        /\ Cardinality(OgRequests(ogPages)) = Len(store)
        /\ \A i \in 1..Len(store) :
              Cardinality({q \in OgRequests(ogPages) :
                              q.file = store[i].id \o <<46, 112, 110, 103>>}) = 1
        /\ \A p \in OrdersOf(ogEntries) :
              /\ OgPagesOf(p) = ogPages
              /\ OgRequests(OgPagesOf(p)) = OgRequests(ogPages)
        /\ ogResponse # NoResponse
              => ogResponse.requests = OgRequests(ogPages)

\* the OG route has served its requests for a store of several records
\* that differ in their data
C14_Witness ==
    /\ ogPc = "loaded"
    /\ ogResponse # NoResponse
    /\ Len(store) = MaxSitePosts
    /\ store[1].data # store[2].data

-----------------------------------------------------------------------------
(* The two-record scenario, checked under Spec *)

\* record A of the scenario: pubDate 2025-01-01, tags ["x"]
IsScenarioA(r) ==
    /\ r.data.pubDate = [day |-> 20089, ms |-> 0]
    /\ r.data.tags = <<(<<120>>)>>

\* record B of the scenario: pubDate 2025-02-01, tags ["y", "x"]
IsScenarioB(r) ==
    /\ r.data.pubDate = [day |-> 20120, ms |-> 0]
    /\ r.data.tags = <<(<<121>>), (<<120>>)>>

\* the store holds A and B, in either order
ScenarioStore ==
    /\ Len(store) = 2
    /\ \/ IsScenarioA(store[1]) /\ IsScenarioB(store[2])
       \/ IsScenarioB(store[1]) /\ IsScenarioA(store[2])

ScenarioA == IF IsScenarioA(store[1]) THEN store[1] ELSE store[2]

ScenarioB == IF IsScenarioB(store[1]) THEN store[1] ELSE store[2]

\* 2025-02-01T00:00:00.000Z
ScenarioUpdated ==
    <<50, 48, 50, 53, 45, 48, 50, 45, 48, 49, 84,
      48, 48, 58, 48, 48, 58, 48, 48, 46, 48, 48, 48, 90>>

\* C15: for A and B in either order, the Ordered View of both GETs is
\* [B, A], the Tag Index is ["x", "y"], the feed's updated is B's pubDate
\* with B's entry first, and the index lists B before A with exactly the
\* two tag lines of x, then y
C15_Scenario ==
    ScenarioStore =>
        /\ FeedServed =>
              /\ feedPosts = <<ScenarioB, ScenarioA>>
              /\ feedResponse.updated = ScenarioUpdated
              /\ feedResponse.entries =
                    <<FeedEntry(ScenarioB), FeedEntry(ScenarioA)>>
        /\ IndexServed =>
              /\ indexPosts = <<ScenarioB, ScenarioA>>
              /\ TagIndex(indexPosts) = <<(<<120>>), (<<121>>)>>
              /\ indexResponse.total = 2
              /\ indexResponse.posts =
                    <<IndexPost(ScenarioB), IndexPost(ScenarioA)>>
              /\ Len(indexResponse.tagLines) = 2
              /\ indexResponse.tagLines[1].tag = <<120>>
              /\ indexResponse.tagLines[2].tag = <<121>>

\* both documents have been served for the store [A, B]
C15_Witness ==
    /\ ScenarioStore
    /\ IsScenarioA(store[1])
    /\ FeedServed
    /\ IndexServed

-----------------------------------------------------------------------------
(* Claims about what the handlers share, checked under Spec and SpecSite *)

\* C16: the rest of a GET after its await leaves the array that
\* getCollection returned holding the same records in the same order
C16_CollectionNotMutated ==
    [][/\ FeedRenderStep => feedPosts' = feedPosts
       /\ IndexRenderStep => indexPosts' = indexPosts]_vars

feedVars == <<feedPc, feedPosts, feedResponse>>

indexVars == <<indexPc, indexPosts, indexResponse>>

\* C17: however the steps of the feed GET, the index GET and the OG route
\* are interleaved, a step of one leaves the variables of the other two as
\* they are, and what each returns is what it returns when it runs alone
\* over the store: the feed document and the index document of the store
\* at the clock's reading, and the render requests of the store's records
C17_Interleaving ==
    [][/\ feedVars' # feedVars => UNCHANGED <<indexVars, ogVars>>
       /\ indexVars' # indexVars => UNCHANGED <<feedVars, ogVars>>
       /\ ogVars' # ogVars => UNCHANGED <<feedVars, indexVars>>
       /\ FeedRenderStep
             => feedResponse' = FeedDocument(SortPosts(store), now)
       /\ IndexRenderStep
             => indexResponse' = IndexDocument(SortPosts(store), now)
       /\ ogResponse' # ogResponse
             => ogResponse' = [requests |-> OgRequests(OgPagesOf(store))]]_vars

\* the three are suspended at their awaits at once, after each GET has
\* already returned a document, over records the sort has to reorder
C17_Witness ==
    /\ feedPc = "fetched"
    /\ indexPc = "fetched"
    /\ ogPc = "fetched"
    /\ feedResponse # NoResponse
    /\ indexResponse # NoResponse
    /\ Len(store) = MaxSitePosts
    /\ SortPosts(store) # store

-----------------------------------------------------------------------------
(* Claims about changing content, checked under SpecContent *)

-----------------------------------------------------------------------------
(* Claims about one feed entry, checked under SpecEntry *)

\* s holds no literal < > ' or ", and every & in s starts a named entity
\* or a numeric reference
MarkupFree(s) ==
    \A i \in 1..Len(s) :
        /\ s[i] \notin {60, 62, 39, 34}
        /\ s[i] = 38 =>
              \/ \E c \in DOMAIN NamedEntities : OccursAt(NamedEntities[c], s, i)
              \/ NumericRefAt(s, i)

\* C19: whatever the title, description and id of a record, none of the
\* values its <entry> puts into element text (title, id, summary, content)
\* or into the href and url attributes (link, thumbnail) holds a literal
\* < > & ' or "
C19_EntryWellFormed ==
    entryPc = "done" =>
        \A f \in {"title", "link", "id", "summary", "content", "thumbnail"} :
            MarkupFree(entryOut[f])

\* the text s with each of < > & ' " replaced by its named entity and each
\* code unit from U+0080 up by its numeric reference
EscapedText(s) ==
    Flatten([i \in 1..Len(s) |->
                IF s[i] \in DOMAIN NamedEntities THEN NamedEntities[s[i]]
                ELSE IF s[i] < 128 THEN <<s[i]>>
                ELSE <<38, 35>> \o ToDecimal(s[i]) \o <<59>>])

\* C20: an entry carries the escaped title, the record's pubDate as its
\* <updated>, and the escaped description in <summary> and in <content>,
\* the two texts being equal
C20_EntryFields ==
    entryPc = "done" =>
        /\ entryOut.title = EscapedText(entryPost.data.title)
        /\ entryOut.updated = toISOString(entryPost.data.pubDate)
        /\ entryPost.data.pubDate = [day |-> 20120, ms |-> 0]
              => entryOut.updated = ScenarioUpdated
        /\ entryOut.summary = EscapedText(entryPost.data.description)
        /\ entryOut.content = entryOut.summary

\* the entry of a record whose title and description need escaping
C20_Witness ==
    /\ entryPc = "done"
    /\ entryPost.data.description = ExampleDescription
    /\ entryPost.data.title = <<34, 113, 34, 39, 115>>
    /\ entryPost.data.pubDate = [day |-> 20120, ms |-> 0]

-----------------------------------------------------------------------------
(* Further claims about escapeXml, checked under SpecEscape *)

\* C21: a call of escapeXml always returns: for the empty string and for a
\* missing description (undefined or null) it returns the empty string,
\* and for every other string it returns a string (of UTF-16 code units)
C21_EscapeTotal ==
    /\ escPc = "call" => ENABLED EscapeCall
    /\ escPc = "done" =>
          /\ unsafe \in {<<>>, Undefined, Null} => escaped = <<>>
          /\ escaped \in Seq(0..65535)

\* escapeXml has returned for a missing description
C21_Witness == escPc = "done" /\ unsafe = Undefined

RECURSIVE FromDecimal(_)
\* the number a string of decimal digits denotes
FromDecimal(digits) ==
    IF digits = <<>> THEN 0
    ELSE 10 * FromDecimal(SubSeq(digits, 1, Len(digits) - 1))
            + (digits[Len(digits)] - 48)

RECURSIVE Unescape(_)
\* the text that escaped text stands for: each named entity and each
\* numeric reference read back as its code unit, every other code unit as
\* itself; an & that starts neither makes the result no string at all
Unescape(s) ==
    IF s = <<>> THEN <<>>
    ELSE IF s[1] # 38 THEN <<s[1]>> \o Unescape(Tail(s))
    ELSE IF \E c \in DOMAIN NamedEntities : OccursAt(NamedEntities[c], s, 1)
    THEN LET c == CHOOSE d \in DOMAIN NamedEntities :
                      OccursAt(NamedEntities[d], s, 1)
         IN  <<c>> \o Unescape(SubSeq(s, Len(NamedEntities[c]) + 1, Len(s)))
    ELSE IF NumericRefAt(s, 1)
    THEN LET j == CHOOSE k \in 4..Len(s) :
                      s[k] = 59 /\ \A m \in 3..(k - 1) : s[m] # 59
         IN  <<FromDecimal(SubSeq(s, 3, j - 1))>>
                 \o Unescape(SubSeq(s, j + 1, Len(s)))
    ELSE <<-1>>

\* C29: escapeXml is injective on strings: the input is read back from the
\* output, and no string of at most one code unit other than the input,
\* nor the spec's example, escapes to the output of the input
C29_EscapeInjective ==
    (escPc = "done" /\ IsString(unsafe)) =>
        /\ Unescape(escaped) = unsafe
        /\ \A t \in StringsUpTo(1) \cup {ExampleDescription} :
              t # unsafe => escapeXml(t) # escaped

\* escapeXml has returned for a string that looks like escaped text, next
\* to the string it would be the escaped text of
C29_Witness == escPc = "done" /\ unsafe = <<38, 35, 49>>

\* the printable Basic Latin characters other than < > & ' "
PlainPrintable == (32..126) \ {60, 62, 38, 39, 34}

\* C30: escapeXml returns a string of printable Basic Latin characters
\* other than < > & ' " as it is, and its output for any string is the
\* concatenation, in the order of the input, of what it returns for each
\* code unit, such a character being returned as itself
C30_PlainUnchanged ==
    (escPc = "done" /\ IsString(unsafe)) =>
        /\ (\A i \in 1..Len(unsafe) : unsafe[i] \in PlainPrintable)
              => escaped = unsafe
        /\ escaped = Flatten([i \in 1..Len(unsafe) |->
                                 IF unsafe[i] \in PlainPrintable
                                 THEN <<unsafe[i]>>
                                 ELSE escapeXml(<<unsafe[i]>>)])

\* escapeXml has returned for a string with plain characters around two
\* that are replaced
C30_Witness == escPc = "done" /\ unsafe = <<65, 38, 60>>

-----------------------------------------------------------------------------
(* Further claims about the index and the feed, checked under Spec *)

\* C22: the Tag Index of the store is empty exactly when every record of
\* the store has an empty tags list, and the Tags section the index serves
\* has no tag line exactly then
C22_TagIndexEmptyIff ==
    LET noTags == \A i \in 1..Len(store) : store[i].data.tags = <<>>
    IN  /\ TagIndex(SortPosts(store)) = <<>> <=> noTags
        /\ IndexServed => (indexResponse.tagLines = <<>> <=> noTags)

\* the index has been served for several records none of which has a tag
C22_Witness ==
    /\ IndexServed
    /\ Len(store) = MaxPosts
    /\ \A i \in 1..Len(store) : store[i].data.tags = <<>>

\* https://0xghost.dev/tags/
TagsUrlPrefix ==
    <<104, 116, 116, 112, 115, 58, 47, 47, 48, 120, 103, 104, 111, 115, 116,
      46, 100, 101, 118, 47, 116, 97, 103, 115, 47>>

\* C23: the i-th line of the Tags section holds the i-th tag of the Tag
\* Index and the url https://0xghost.dev/tags/<tag>/ of that tag, and there
\* are as many lines as the records have distinct tags
C23_TagLines ==
    IndexServed =>
        LET lines    == indexResponse.tagLines
            tagIndex == TagIndex(SortPosts(store))
        IN  /\ Len(lines) = Len(tagIndex)
            /\ Len(lines) = Cardinality(AllTags(store))
            /\ \A i \in 1..Len(lines) :
                  /\ lines[i].tag = tagIndex[i]
                  /\ lines[i].url = TagsUrlPrefix \o lines[i].tag \o <<47>>

\* the index has been served with the tag lines of x, xy and y
C23_Witness ==
    /\ IndexServed
    /\ Len(indexResponse.tagLines) = 3
    /\ indexResponse.tagLines[2].tag = <<120, 121>>

\* C27: the count in the heading of the index is the number of records of
\* the store and the number of post blocks of the index, and the feed over
\* the same store has as many entries
C27_Counts ==
    /\ IndexServed => /\ indexResponse.total = Len(store)
                      /\ Len(indexResponse.posts) = Len(store)
    /\ FeedServed => Len(feedResponse.entries) = Len(store)
    /\ (IndexServed /\ FeedServed)
          => indexResponse.total = Len(feedResponse.entries)

\* both documents have been served for a store whose records and tags
\* differ in number
C27_Witness ==
    /\ IndexServed
    /\ FeedServed
    /\ Len(store) = MaxPosts
    /\ Len(indexResponse.tagLines) # Len(store)

-----------------------------------------------------------------------------
(* Claims about updatedDate, checked under SpecUpdated *)

\* the records of posts, each without its updatedDate
WithoutUpdatedDate(posts) ==
    [i \in 1..Len(posts) |->
        [id   |-> posts[i].id,
         data |-> [f \in DOMAIN posts[i].data \ {"updatedDate"} |->
                      posts[i].data[f]]]]

\* the ids of posts, in order
IdsOf(posts) == [i \in 1..Len(posts) |-> posts[i].id]

\* C24: the order in which a GET puts the records, and the document it
\* returns, are the ones it gives for the same records with every
\* updatedDate removed: record sets that differ only in updatedDate get
\* the same order in the feed and in the index and the same <updated>
\* timestamps
C24_UpdatedDateIgnored ==
    [][/\ FeedRenderStep
             => /\ IdsOf(feedPosts') = IdsOf(SortPosts(WithoutUpdatedDate(feedPosts)))
                /\ feedResponse' =
                      FeedDocument(SortPosts(WithoutUpdatedDate(feedPosts)), now)
       /\ IndexRenderStep
             => /\ IdsOf(indexPosts') = IdsOf(SortPosts(WithoutUpdatedDate(indexPosts)))
                /\ indexResponse' =
                      IndexDocument(SortPosts(WithoutUpdatedDate(indexPosts)), now)]_vars

\* both documents have been served for two records of which the one
\* published first was updated last
C24_Witness ==
    /\ FeedServed
    /\ IndexServed
    /\ Len(store) >= 2
    /\ store[1].data.pubDate = [day |-> 20089, ms |-> 0]
    /\ "updatedDate" \in DOMAIN store[1].data
    /\ store[1].data.updatedDate = [day |-> 20150, ms |-> 0]
    /\ store[2].data.pubDate = [day |-> 20120, ms |-> 0]
    /\ "updatedDate" \notin DOMAIN store[2].data
    /\ feedPosts[1].id = store[2].id

-----------------------------------------------------------------------------
(* Further claims about the OG route and the feed, checked under SpecSite *)

\* the theme fields of render options
ThemeOf(options) ==
    [f \in DOMAIN options \ {"title", "description"} |-> options[f]]

\* the options of the request the OG route serves for the record r
ServedOptions(r) ==
    (CHOOSE q \in ogResponse.requests :
        q.file = r.id \o <<46, 112, 110, 103>>).options

\* C25: the options of the request of a record hold the record's title and
\* description and are those of a page with that title and description
\* alone; records with equal title and description get equal options; and
\* the theme fields are the same for every record
C25_OptionsFromTitleDescription ==
    (ogPc = "loaded" /\ ogResponse # NoResponse) =>
        /\ \A i \in 1..Len(store) :
              /\ ServedOptions(store[i]).title = store[i].data.title
              /\ ServedOptions(store[i]).description = store[i].data.description
              /\ ServedOptions(store[i]) =
                    getImageOptions(store[i].id,
                        [title       |-> store[i].data.title,
                         description |-> store[i].data.description,
                         tags        |-> <<>>])
        /\ \A i, j \in 1..Len(store) :
              /\ ThemeOf(ServedOptions(store[i])) = ThemeOf(ServedOptions(store[j]))
              /\ (/\ store[i].data.title = store[j].data.title
                  /\ store[i].data.description = store[j].data.description)
                    => ServedOptions(store[i]) = ServedOptions(store[j])

\* the OG route has served the requests of two records with one title and
\* description that differ in pubDate and tags
C25_Witness ==
    /\ ogPc = "loaded"
    /\ ogResponse # NoResponse
    /\ Len(store) >= 2
    /\ store[1].data.description = store[2].data.description
    /\ store[1].data.pubDate # store[2].data.pubDate
    /\ Len(store[1].data.tags) # Len(store[2].data.tags)

\* C28: the ids of the store being unique, the records get pairwise
\* different image file names and pairwise different feed entry ids, and
\* the OG route has as many pages as the store has records
C28_DistinctNames ==
    (\A i, j \in 1..Len(store) : store[i].id = store[j].id => i = j) =>
        /\ ogPc = "loaded" =>
              /\ Cardinality(DOMAIN ogPages) = Len(store)
              /\ \A p, q \in DOMAIN ogPages :
                    getSlug(p, ogPages[p]) = getSlug(q, ogPages[q]) => p = q
        /\ ogResponse # NoResponse =>
              Cardinality({q.file : q \in ogResponse.requests}) = Len(store)
        /\ FeedServed =>
              \A i, j \in 1..Len(feedResponse.entries) :
                  feedResponse.entries[i].id = feedResponse.entries[j].id => i = j

\* the feed and the OG requests have been served for several records with
\* the same data
C28_Witness ==
    /\ FeedServed
    /\ ogPc = "loaded"
    /\ ogResponse # NoResponse
    /\ Len(store) = MaxSitePosts
    /\ \A i \in 1..Len(store) : store[i].data = store[1].data

\* https://0xghost.dev/og/
ThumbnailPrefix ==
    <<104, 116, 116, 112, 115, 58, 47, 47, 48, 120, 103, 104, 111, 115, 116,
      46, 100, 101, 118, 47, 111, 103, 47>>

\* the last path segment of a url: what follows its last /
LastSegment(url) ==
    LET slashes == {k \in 1..Len(url) : url[k] = 47}
        last    == IF slashes = {} THEN 0
                   ELSE CHOOSE k \in slashes : \A j \in slashes : j <= k
    IN  SubSeq(url, last + 1, Len(url))

\* the feed and the OG requests have both been served
FeedAndOgServed == FeedServed /\ ogPc = "loaded" /\ ogResponse # NoResponse

\* C26 as stated: the thumbnail url of the entry of a record is
\* https://0xghost.dev/og/<id>.png, its last path segment is the file name
\* the OG route derives for the id, and the last path segments of the
\* feed's thumbnails are exactly the file names of the requests
C26_ThumbnailLastSegment ==
    FeedAndOgServed =>
        /\ \A i \in 1..Len(feedPosts) :
              /\ feedResponse.entries[i].thumbnail =
                    ThumbnailPrefix \o feedPosts[i].id \o <<46, 112, 110, 103>>
              /\ LastSegment(feedResponse.entries[i].thumbnail) =
                    getSlug(feedPosts[i].id, ogPages[feedPosts[i].id])
        /\ {LastSegment(feedResponse.entries[i].thumbnail) :
               i \in 1..Len(feedResponse.entries)}
              = {q.file : q \in ogResponse.requests}

\* C26 (amended): the thumbnail url of the entry of a record is
\* https://0xghost.dev/og/<id>.png, which is https://0xghost.dev/og/
\* followed by the file name the OG route derives for the id, and the
\* thumbnails of the feed are exactly the urls of the requests' files
C26_ThumbnailPath ==
    FeedAndOgServed =>
        /\ \A i \in 1..Len(feedPosts) :
              /\ feedResponse.entries[i].thumbnail =
                    ThumbnailPrefix \o feedPosts[i].id \o <<46, 112, 110, 103>>
              /\ feedResponse.entries[i].thumbnail =
                    ThumbnailPrefix
                        \o getSlug(feedPosts[i].id, ogPages[feedPosts[i].id])
        /\ {feedResponse.entries[i].thumbnail :
               i \in 1..Len(feedResponse.entries)}
              = {ThumbnailPrefix \o q.file : q \in ogResponse.requests}

\* the feed and the OG requests have been served for a store that holds
\* p1 and d/p2
C26_Witness ==
    /\ FeedAndOgServed
    /\ Len(store) >= 2
    /\ store[2].id = <<100, 47, 112, 50>>

=============================================================================
